---------------------------- MODULE Spec2Model ----------------------------
(***************************************************************************)
(* A model of the QRIS utility (src/src/QRIS.js): the EMV tag writer       *)
(* generateTag, the CRC16 routine calculateCRC16, the TLV scanner          *)
(* parseTLV, and the three entry points generate, validate and extract.    *)
(*                                                                         *)
(* A JavaScript string is a sequence of character codes (UTF-16 code       *)
(* units), so "6304" is <<54, 51, 48, 52>>.  A JavaScript object is a      *)
(* function from its keys to values; a value is a record that says whether *)
(* it is a string (str) or a nested object (sub).                          *)
(***************************************************************************)
EXTENDS Integers, Sequences, FiniteSets, TLC

(***************************************************************************)
(* Bounds of the model.                                                    *)
(***************************************************************************)
\* the longest input handed to calculateCRC16 in SpecCRC
MaxCrcLen == 3

\* the most pieces a base payload is made of
MaxChunks == 2

\* the longest payload handed to extract in SpecParse
MaxPayloadLen == 4

(***************************************************************************)
(* JavaScript string and number primitives used by the code.               *)
(***************************************************************************)
RECURSIVE Pow2(_)
Pow2(k) == IF k = 0 THEN 1 ELSE 2 * Pow2(k - 1)

\* a ^ b on non-negative integers
RECURSIVE BitXor(_, _)
BitXor(a, b) ==
    IF b = 0 THEN a
    ELSE IF a = 0 THEN b
    ELSE 2 * BitXor(a \div 2, b \div 2) + (((a % 2) + (b % 2)) % 2)

\* String.prototype.slice(a, b): negative indices count from the end, both
\* ends are clamped to the string, an empty range gives ""
Slice(s, a, b) ==
    LET n     == Len(s)
        from  == IF a < 0 THEN (IF n + a < 0 THEN 0 ELSE n + a)
                          ELSE (IF a > n THEN n ELSE a)
        to    == IF b < 0 THEN (IF n + b < 0 THEN 0 ELSE n + b)
                          ELSE (IF b > n THEN n ELSE b)
    IN  IF from < to THEN SubSeq(s, from + 1, to) ELSE <<>>

\* String.prototype.padStart(width, pad) with a one-character pad
RECURSIVE PadStart(_, _, _)
PadStart(s, width, pad) ==
    IF Len(s) >= width THEN s ELSE PadStart(<<pad>> \o s, width, pad)

\* the digit character of d in Number.prototype.toString: 0-9, then a-z
DigitChar(d) == IF d < 10 THEN 48 + d ELSE 97 + (d - 10)

\* Number.prototype.toString(radix) of a non-negative integer
RECURSIVE ToStringRadix(_, _)
ToStringRadix(n, radix) ==
    IF n < radix THEN <<DigitChar(n)>>
    ELSE ToStringRadix(n \div radix, radix) \o <<DigitChar(n % radix)>>

\* String.prototype.toUpperCase on the characters a-z
ToUpperCase(s) ==
    [k \in 1..Len(s) |-> IF s[k] \in 97..122 THEN s[k] - 32 ELSE s[k]]

(***************************************************************************)
(* calculateCRC16                                                          *)
(***************************************************************************)
CRC_INIT == 65535
CRC_TOPBIT == 32768
CRC_MASK == 65535

\* x with the bit of weight p (a power of two) inverted
FlipBit(x, p) == IF (x \div p) % 2 = 1 THEN x - p ELSE x + p

\* x ^ 0x1021: 0x1021 is the bits of weight 4096, 32 and 1
XorPoly(x) == FlipBit(FlipBit(FlipBit(x, 4096), 32), 1)

\* crc & 0x8000 is not zero
TopBitSet(crc) == (crc \div CRC_TOPBIT) % 2 = 1

\* the inner loop's pass without crc &= 0xFFFF
CrcShift_NoMask(crc) == IF TopBitSet(crc) THEN XorPoly(crc * 2) ELSE crc * 2

\* one pass of the inner loop (j):
\*   crc = (crc & 0x8000) ? (crc << 1) ^ 0x1021 : crc << 1
\*   crc &= 0xFFFF
CrcShift(crc) ==
    (IF TopBitSet(crc) THEN XorPoly(crc * 2) ELSE crc * 2) % (CRC_MASK + 1)

RECURSIVE CrcShifts(_, _)
CrcShifts(crc, j) == IF j = 0 THEN crc ELSE CrcShifts(CrcShift(crc), j - 1)

\* one pass of the outer loop (i): crc ^= code << 8, then 8 inner passes
CrcChar(crc, code) == CrcShifts(BitXor(crc, code * 256), 8)

\* the register after the passes lo..hi of the outer loop, which started
\* with crc.  The passes are taken in order.  (Halving the range, and the
\* test of crc, which is never negative, keep TLC's evaluation shallow: the
\* register is evaluated before the passes that use it.)
RECURSIVE CrcLoop(_, _, _, _)
CrcLoop(crc, data, lo, hi) ==
    IF crc < 0 \/ lo > hi THEN crc
    ELSE IF lo = hi THEN CrcChar(crc, data[lo])
    ELSE CrcLoop(CrcLoop(crc, data, lo, (lo + hi) \div 2),
                 data, (lo + hi) \div 2 + 1, hi)

\* crc.toString(16).toUpperCase().padStart(4, '0')
CrcRender(crc) == PadStart(ToUpperCase(ToStringRadix(crc, 16)), 4, 48)

calculateCRC16(data) == CrcRender(CrcLoop(CRC_INIT, data, 1, Len(data)))


(***************************************************************************)
(* More string primitives                                                  *)
(***************************************************************************)
\* the positions (0-based) at which t occurs in s
Occurrences(s, t) ==
    {k \in 0..(Len(s) - Len(t)) : SubSeq(s, k + 1, k + Len(t)) = t}

\* String.prototype.indexOf(t): the first position at which t occurs, -1
\* when there is none
IndexOf(s, t) ==
    IF Occurrences(s, t) = {} THEN -1
    ELSE CHOOSE k \in Occurrences(s, t) : \A o \in Occurrences(s, t) : k <= o

\* String.prototype.lastIndexOf(t)
LastIndexOf(s, t) ==
    IF Occurrences(s, t) = {} THEN -1
    ELSE CHOOSE k \in Occurrences(s, t) : \A o \in Occurrences(s, t) : k >= o

\* String.prototype.includes(t)
Includes(s, t) == IndexOf(s, t) # -1

\* the characters parseInt skips at the front (WhiteSpace and LineTerminator)
WhiteSpace ==
    {9, 10, 11, 12, 13, 32, 160, 5760, 8232, 8233, 8239, 8287, 12288, 65279}
        \cup (8192..8202)

IsDigit(c) == c \in 48..57

\* the value of the longest run of decimal digits at the front of s, after
\* the digits already read have given acc
RECURSIVE DigitRun(_, _)
DigitRun(s, acc) ==
    IF s # <<>> /\ IsDigit(s[1]) THEN DigitRun(Tail(s), 10 * acc + (s[1] - 48))
    ELSE acc

\* parseInt(s, 10): leading white space is skipped, one sign is read, then
\* the longest run of digits; what follows the digits is ignored; no digit
\* at all gives NaN
RECURSIVE ParseInt(_)
ParseInt(s) ==
    IF s # <<>> /\ s[1] \in WhiteSpace THEN ParseInt(Tail(s))
    ELSE LET signed == s # <<>> /\ s[1] \in {43, 45}
             body   == IF signed THEN Tail(s) ELSE s
             mag    == DigitRun(body, 0)
         IN  IF body = <<>> \/ ~IsDigit(body[1]) THEN [nan |-> TRUE, n |-> 0]
             ELSE [nan |-> FALSE,
                   n   |-> IF signed /\ s[1] = 45 THEN 0 - mag ELSE mag]

\* Number(dataAmount).toFixed(2), the amount being given in hundredths: the
\* model's amounts are the numbers with at most two decimals (10000, 99.5),
\* which toFixed(2) renders exactly
ToFixed2(hundredths) ==
    LET mag  == IF hundredths < 0 THEN 0 - hundredths ELSE hundredths
        text == ToStringRadix(mag \div 100, 10) \o <<46>>
                    \o PadStart(ToStringRadix(mag % 100, 10), 2, 48)
    IN  IF hundredths < 0 THEN <<45>> \o text ELSE text

(***************************************************************************)
(* Objects: a function from keys (strings) to values                       *)
(***************************************************************************)
EmptyObj == [k \in {} |-> <<>>]

StrVal(s) == [obj |-> FALSE, str |-> s, sub |-> EmptyObj]
ObjVal(o) == [obj |-> TRUE, str |-> <<>>, sub |-> o]

\* obj[key] = val
Put(o, key, val) ==
    [k \in (DOMAIN o) \cup {key} |-> IF k = key THEN val ELSE o[k]]

\* delete obj[key]
Delete(o, key) == [k \in (DOMAIN o) \ {key} |-> o[k]]

\* the order of strings by UTF-16 code units, which Array.prototype.sort
\* uses when it is given no comparator
RECURSIVE LexLess(_, _)
LexLess(a, b) ==
    IF b = <<>> THEN FALSE
    ELSE IF a = <<>> THEN TRUE
    ELSE IF a[1] # b[1] THEN a[1] < b[1]
    ELSE LexLess(Tail(a), Tail(b))

\* the keys in the reverse of sorted order: what the code would emit if its
\* comparison were turned around
RECURSIVE SortKeys_Descending(_)
SortKeys_Descending(keys) ==
    IF keys = {} THEN <<>>
    ELSE LET last == CHOOSE k \in keys : \A o \in keys \ {k} : LexLess(o, k)
         IN  <<last>> \o SortKeys_Descending(keys \ {last})

\* Object.keys(obj).sort()
RECURSIVE SortKeys(_)
SortKeys(keys) ==
    IF keys = {} THEN <<>>
    ELSE LET first == CHOOSE k \in keys : \A o \in keys \ {k} : LexLess(k, o)
         IN  <<first>> \o SortKeys(keys \ {first})

(***************************************************************************)
(* generateTag                                                             *)
(***************************************************************************)
\* value.length.toString().padStart(2, '0')
LengthField(value) == PadStart(ToStringRadix(Len(value), 10), 2, 48)

generateTag(id, value) == id \o LengthField(value) \o value

(***************************************************************************)
(* parseTLV: one pass of the while loop at position i of data              *)
(***************************************************************************)
\* while (i + 4 <= data.length)
LoopCond(data, i) == i + 4 <= Len(data)

ScanId(data, i) == Slice(data, i, i + 2)

ScanLen(data, i) == ParseInt(Slice(data, i + 2, i + 4))

ScanValue(data, i) == Slice(data, i + 4, i + 4 + ScanLen(data, i).n)

\* if (isNaN(len) || i + 4 + len > data.length) break
ScanBreaks(data, i) ==
    ScanLen(data, i).nan \/ i + 4 + ScanLen(data, i).n > Len(data)

\* i += 4 + len
ScanAdvance(data, i) == i + 4 + ScanLen(data, i).n

\* parseTLV(data, recurseTags) from position i with the entries in result:
\* what it returns, or that it does not return (hung).  The position after
\* a pass depends on the position before it alone, so a scan that comes to
\* a position it has been at (visited) repeats itself for ever.
RECURSIVE parseFrom(_, _, _, _, _)
parseFrom(data, recurseTags, i, result, visited) ==
    IF ~LoopCond(data, i) \/ ScanBreaks(data, i)
        THEN [hung |-> FALSE, result |-> result]
    ELSE IF i \in visited THEN [hung |-> TRUE, result |-> result]
    ELSE LET id    == ScanId(data, i)
             value == ScanValue(data, i)
             inner == IF id \in recurseTags
                          THEN parseFrom(value, recurseTags, 0, EmptyObj, {})
                          ELSE [hung |-> FALSE, result |-> EmptyObj]
             val   == IF id \in recurseTags THEN ObjVal(inner.result)
                                            ELSE StrVal(value)
         IN  IF inner.hung THEN [hung |-> TRUE, result |-> result]
             ELSE parseFrom(data, recurseTags, ScanAdvance(data, i),
                            Put(result, id, val), visited \cup {i})

parseTLV(data, recurseTags) == parseFrom(data, recurseTags, 0, EmptyObj, {})

(***************************************************************************)
(* generate                                                                *)
(***************************************************************************)
\* "6304": the id of the CRC tag and its length
CRC_TAG == <<54, 51, 48, 52>>

TAG_AMOUNT == <<53, 52>>        \* '54'
TAG_ADDITIONAL == <<54, 50>>    \* '62'
TAG_CRC == <<54, 51>>           \* '63'
SUB_INVOICE == <<48, 49>>       \* '01'
SUB_DESCRIPTION == <<48, 55>>   \* '07'

RECURSIVE Join(_)
Join(strings) ==
    IF strings = <<>> THEN <<>> ELSE Head(strings) \o Join(Tail(strings))

\* rebuild(obj): the entries in the order of Object.keys(obj).sort(), each
\* with the string generateTag is given as its value, and their join
RECURSIVE rebuild(_)
Entries(o) ==
    LET keys == SortKeys(DOMAIN o)
    IN  [k \in 1..Len(keys) |->
            [id    |-> keys[k],
             value |-> IF o[keys[k]].obj THEN rebuild(o[keys[k]].sub)
                                         ELSE o[keys[k]].str]]

rebuild(o) ==
    LET entries == Entries(o)
    IN  Join([k \in 1..Len(entries) |->
                 generateTag(entries[k].id, entries[k].value)])

\* the base cut at its last "6304" instead of its first
BaseQR_LastMarker(dataQris) ==
    Slice(dataQris, 0, LastIndexOf(dataQris, CRC_TAG))

\* dataQris.slice(0, dataQris.indexOf('6304'))
BaseQR(dataQris) == Slice(dataQris, 0, IndexOf(dataQris, CRC_TAG))

\* if (dataInvoice || dataDescription) { ... tlv['62'] = addData }
WithAdditionalData(tlv, dataInvoice, dataDescription) ==
    LET withInvoice ==
            IF dataInvoice # <<>>
                THEN Put(EmptyObj, SUB_INVOICE, StrVal(dataInvoice))
                ELSE EmptyObj
        addData ==
            IF dataDescription # <<>>
                THEN Put(withInvoice, SUB_DESCRIPTION, StrVal(dataDescription))
                ELSE withInvoice
    IN  IF dataInvoice # <<>> \/ dataDescription # <<>>
            THEN Put(tlv, TAG_ADDITIONAL, ObjVal(addData))
            ELSE tlv

\* generate past its check of the base: parse, set the tags, rebuild, add
\* the CRC.  status says how the call ends: it returns qris, or it never
\* returns because parseTLV does not
generateBody(dataQris, dataAmount, dataInvoice, dataDescription) ==
    LET parsed == parseTLV(BaseQR(dataQris), {})
        tlv    == WithAdditionalData(
                      Put(parsed.result, TAG_AMOUNT,
                          StrVal(ToFixed2(dataAmount))),
                      dataInvoice, dataDescription)
        qrWithoutCRC == rebuild(tlv) \o CRC_TAG
    IN  IF parsed.hung
            THEN [status |-> "hung", error |-> "", tlv |-> EmptyObj,
                  qris |-> <<>>]
            ELSE [status |-> "returned", error |-> "", tlv |-> tlv,
                  qris |-> qrWithoutCRC \o calculateCRC16(qrWithoutCRC)]

\* generate without its check of the base
generate_NoCheck(dataQris, dataAmount, dataInvoice, dataDescription) ==
    generateBody(dataQris, dataAmount, dataInvoice, dataDescription)

generate(dataQris, dataAmount, dataInvoice, dataDescription) ==
    IF ~Includes(dataQris, CRC_TAG)
        THEN [status |-> "threw",
              error  |-> "Invalid QRIS base: CRC tag \"6304\" not found",
              tlv    |-> EmptyObj,
              qris   |-> <<>>]
        ELSE generateBody(dataQris, dataAmount, dataInvoice, dataDescription)

(***************************************************************************)
(* validate                                                                *)
(***************************************************************************)
validate(qrString) ==
    LET index == IndexOf(qrString, CRC_TAG)
    IN  IF index = -1 \/ Len(qrString) < index + 8 THEN FALSE
        ELSE Slice(qrString, index + 4, index + 8)
                 = calculateCRC16(Slice(qrString, 0, index + 4))

(***************************************************************************)
(* extract                                                                 *)
(***************************************************************************)
\* the number a two-digit id denotes, -1 for any other id
IdNumber(id) ==
    IF Len(id) = 2 /\ IsDigit(id[1]) /\ IsDigit(id[2])
        THEN 10 * (id[1] - 48) + (id[2] - 48)
        ELSE -1

\* tagMap[key] || `Tag ${key}`.  A label is a tuple: the text of the label,
\* with the id where the label contains it
TagLabel(key) ==
    LET n == IdNumber(key)
    IN  CASE n = 0 -> <<"Payload Format Indicator">>
          [] n = 1 -> <<"Point of Initiation Method">>
          [] n \in 26..51 -> <<"Merchant Account Info (", key, ")">>
          [] n = 52 -> <<"Merchant Category Code">>
          [] n = 53 -> <<"Transaction Currency">>
          [] n = 54 -> <<"Transaction Amount">>
          [] n = 55 -> <<"Tip or Convenience Indicator">>
          [] n = 56 -> <<"Value of Convenience Fee Fixed">>
          [] n = 57 -> <<"Value of Convenience Fee Percentage">>
          [] n = 58 -> <<"Country Code">>
          [] n = 59 -> <<"Merchant Name">>
          [] n = 60 -> <<"Merchant City">>
          [] n = 61 -> <<"Postal Code">>
          [] n = 62 -> <<"Additional Data">>
          [] n = 63 -> <<"CRC">>
          [] OTHER -> <<"Tag ", key>>

\* { '00': ..., '01': ..., '07': ... }[subKey] || `Tag ${subKey}`
SubLabel(subKey) ==
    LET n == IdNumber(subKey)
    IN  CASE n = 0 -> <<"Global Unique ID">>
          [] n = 1 -> <<"Invoice Number">>
          [] n = 7 -> <<"Description">>
          [] OTHER -> <<"Tag ", subKey>>

\* const recurseTags = ['62']
RecurseTags == {TAG_ADDITIONAL}

\* the loop over Object.entries(val) that fills nested
Nested(val) ==
    [l \in {SubLabel(k) : k \in DOMAIN val} |->
        LET k == CHOOSE x \in DOMAIN val : SubLabel(x) = l
        IN  val[k]]

\* extract past its call of parseTLV: delete raw['63'], then the loop over
\* Object.entries(raw) that fills result
Relabel(parsed) ==
    LET raw == Delete(parsed, TAG_CRC)
    IN  [l \in {TagLabel(k) : k \in DOMAIN raw} |->
            LET k == CHOOSE x \in DOMAIN raw : TagLabel(x) = l
            IN  IF raw[k].obj THEN ObjVal(Nested(raw[k].sub)) ELSE raw[k]]

extract(qrString) ==
    LET parsed == parseTLV(qrString, RecurseTags)
    IN  IF parsed.hung THEN [status |-> "hung", result |-> EmptyObj]
        ELSE [status |-> "returned", result |-> Relabel(parsed.result)]


(***************************************************************************)
(* State.  Three machines share the module; each specification runs one of *)
(* them and leaves the variables of the others at their initial values.    *)
(***************************************************************************)
VARIABLES
    \* a call of calculateCRC16(data), one outer-loop pass per step
    crcData,        \* the argument data
    crcI,           \* the loop index i: characters consumed so far
    crcReg,         \* the register crc
    crcHex,         \* the returned string, <<>> before the return
    crcPc           \* "loop" | "returned"

VARIABLES
    \* a caller of generate, validate and extract
    dataQris,           \* the arguments of generate
    dataAmount,         \*   (the amount in hundredths)
    dataInvoice,
    dataDescription,
    gen,                \* how generate ended: status, error, tlv, qris
    qrString,           \* the string handed to validate and extract
    tampered,           \* whether qrString is a tampered generate output
    valid,              \* what validate returned
    extracted,          \* how extract ended: status, result
    pc                  \* "start" | "generated" | "threw" | "hung" |
                        \* "tampered" | "validated" | "extracted"

VARIABLES
    \* a call of extract(payload), one pass of parseTLV's loop per step
    payload,        \* the argument qrString
    frames,         \* the calls of parseTLV in progress, the innermost last:
                    \*   data, i, result, and the passes its loop has begun
    returned,       \* what extract returned
    parsePc         \* "call" | "scan" | "done"

crcVars == <<crcData, crcI, crcReg, crcHex, crcPc>>

parseVars == <<payload, frames, returned, parsePc>>

mainVars == <<dataQris, dataAmount, dataInvoice, dataDescription, gen,
              qrString, tampered, valid, extracted, pc>>

vars == <<crcVars, mainVars, parseVars>>

(***************************************************************************)
(* The caller: generate, then validate or extract on what it returned      *)
(***************************************************************************)
NotCalled == [status |-> "none", error |-> "", tlv |-> EmptyObj, qris |-> <<>>]
NotExtracted == [status |-> "none", result |-> EmptyObj]

CrcIdle ==
    /\ crcData = <<>>
    /\ crcI = 0
    /\ crcReg = CRC_INIT
    /\ crcHex = <<>>
    /\ crcPc = "idle"

ParseIdle ==
    /\ payload = <<>>
    /\ frames = <<>>
    /\ returned = EmptyObj
    /\ parsePc = "idle"

MainIdle ==
    /\ dataQris = <<>>
    /\ dataAmount = 0
    /\ dataInvoice = <<>>
    /\ dataDescription = <<>>
    /\ gen = NotCalled
    /\ qrString = <<>>
    /\ tampered = FALSE
    /\ valid = FALSE
    /\ extracted = NotExtracted
    /\ pc = "idle"

\* the pieces the base payloads are made of
Chunks == {
    <<48, 48, 48, 50, 48, 49>>,      \* "000201": tag 00
    <<48, 48, 48, 50, 90, 90>>,      \* "0002ZZ": tag 00 once more
    <<53, 52, 48, 50, 49, 50>>,      \* "540212": an amount already there
    <<54, 50, 48, 55, 48, 49, 48, 51, 79, 76, 68>>,      \* "62070103OLD": additional data already there
    <<53, 57, 48, 52, 54, 51, 48, 52>>,      \* "59046304": the marker inside a value
    <<65, 65, 45, 49>>,      \* "AA-1": a length of minus one
    <<48, 48, 45, 52>> }     \* "00-4": a length of minus four

\* what ends a base: nothing, the CRC header, the CRC header and a checksum
Tails == { <<>>, CRC_TAG, CRC_TAG \o <<52, 69, 54, 55>> }

Bases ==
    {Join(c) \o t : c \in UNION {[1..n -> Chunks] : n \in 0..MaxChunks},
                    t \in Tails}

\* 7.00, 304.50
Amounts == {700, 30450}

\* "", "INV-4", and "63044807": the CRC header and a checksum
Invoices == { <<>>, <<73, 78, 86, 45, 52>>, <<54, 51, 48, 52, 52, 56, 48, 55>> }

\* "", "Shop"
Descriptions == { <<>>, <<83, 104, 111, 112>> }

\* "000201" "6304"
PlainBase == <<48, 48, 48, 50, 48, 49>> \o CRC_TAG

\* an invoice of 100 characters
LongInvoice == [k \in 1..100 |-> 65]

Init ==
    /\ CrcIdle
    /\ ParseIdle
    /\ \/ /\ dataQris \in Bases
          /\ dataAmount \in Amounts
          /\ dataInvoice \in Invoices
          /\ dataDescription \in Descriptions
       \/ /\ dataQris = PlainBase
          /\ dataAmount = 700
          /\ dataInvoice = LongInvoice
          /\ dataDescription \in Descriptions
    /\ gen = NotCalled
    /\ qrString = <<>>
    /\ tampered = FALSE
    /\ valid = FALSE
    /\ extracted = NotExtracted
    /\ pc = "start"

\* const qris = QRIS.generate(dataQris, dataAmount, dataInvoice, dataDescription)
Generate ==
    /\ pc = "start"
    /\ gen' = generate(dataQris, dataAmount, dataInvoice, dataDescription)
    /\ qrString' = gen'.qris
    /\ pc' = IF gen'.status = "returned" THEN "generated" ELSE gen'.status
    /\ UNCHANGED <<dataQris, dataAmount, dataInvoice, dataDescription,
                   tampered, valid, extracted, crcVars, parseVars>>

\* the characters a tamperer writes: "0" and "X"
TamperChars == {48, 88}

\* qris with one of its final 4 characters replaced by another character
Tamper ==
    /\ pc = "generated"
    /\ \E k \in 1..4, c \in TamperChars :
          LET at == Len(qrString) - 4 + k
          IN  /\ qrString[at] # c
              /\ qrString' = [qrString EXCEPT ![at] = c]
    /\ tampered' = TRUE
    /\ pc' = "tampered"
    /\ UNCHANGED <<dataQris, dataAmount, dataInvoice, dataDescription, gen,
                   valid, extracted, crcVars, parseVars>>

\* QRIS.validate(qrString)
Validate ==
    /\ pc \in {"generated", "tampered"}
    /\ valid' = validate(qrString)
    /\ pc' = "validated"
    /\ UNCHANGED <<dataQris, dataAmount, dataInvoice, dataDescription, gen,
                   qrString, tampered, extracted, crcVars, parseVars>>

\* QRIS.extract(qrString)
Extract ==
    /\ pc = "generated"
    /\ extracted' = extract(qrString)
    /\ pc' = "extracted"
    /\ UNCHANGED <<dataQris, dataAmount, dataInvoice, dataDescription, gen,
                   qrString, tampered, valid, crcVars, parseVars>>

Next == Generate \/ Tamper \/ Validate \/ Extract

\* a caller who generates and then validates, tampers or extracts
Spec == Init /\ [][Next]_vars

\* a caller who only generates
SpecGenerate == Init /\ [][Generate]_vars

(***************************************************************************)
(* extract as a machine: parseTLV's loop pass by pass                      *)
(***************************************************************************)
\* the characters the payloads of SpecParse are made of: 0 2 3 4 6 and -
ParseAlphabet == {48, 50, 51, 52, 54, 45}

\* longer payloads: a nested entry followed by a CRC entry
\* ("62080002230363042346"), and a nested length of minus four ("620400-4")
LongPayloads == {
    <<54, 50, 48, 56, 48, 48, 48, 50, 50, 51, 48, 51, 54, 51, 48, 52, 50, 51, 52, 54>>,
    <<54, 50, 48, 52, 48, 48, 45, 52>> }

Payloads ==
    UNION {[1..n -> ParseAlphabet] : n \in 0..MaxPayloadLen} \cup LongPayloads

\* parseTLV(data, recurseTags) entered: result = {}, i = 0
Frame(data) == [data |-> data, i |-> 0, result |-> EmptyObj, passes |-> 0]

Top == frames[Len(frames)]

\* the loop of the innermost call is left: its condition fails or it breaks
LoopLeft == ~LoopCond(Top.data, Top.i) \/ ScanBreaks(Top.data, Top.i)

\* The model follows a loop for one pass more than its data has characters.
\* Every scan of the payloads here that leaves its loop does so earlier; a
\* loop with that many passes behind it is at a position for the second
\* time and repeats itself, which the code does for ever.
PassAllowed == Top.passes <= Len(Top.data)

ParseInit ==
    /\ CrcIdle
    /\ MainIdle
    /\ payload \in Payloads
    /\ frames = <<>>
    /\ returned = EmptyObj
    /\ parsePc = "call"

\* const raw = this.parseTLV(qrString, recurseTags)
ExtractCall ==
    /\ parsePc = "call"
    /\ frames' = <<Frame(payload)>>
    /\ parsePc' = "scan"
    /\ UNCHANGED <<payload, returned, crcVars, mainVars>>

\* a pass that stores a string: result[id] = value; i += 4 + len
ScanStore ==
    /\ parsePc = "scan"
    /\ ~LoopLeft
    /\ PassAllowed
    /\ ScanId(Top.data, Top.i) \notin RecurseTags
    /\ frames' = [frames EXCEPT ![Len(frames)] =
          [data   |-> Top.data,
           i      |-> ScanAdvance(Top.data, Top.i),
           result |-> Put(Top.result, ScanId(Top.data, Top.i),
                          StrVal(ScanValue(Top.data, Top.i))),
           passes |-> Top.passes + 1]]
    /\ UNCHANGED <<payload, returned, parsePc, crcVars, mainVars>>

\* a pass that calls this.parseTLV(value, recurseTags)
ScanRecurse ==
    /\ parsePc = "scan"
    /\ ~LoopLeft
    /\ PassAllowed
    /\ ScanId(Top.data, Top.i) \in RecurseTags
    /\ frames' = Append([frames EXCEPT ![Len(frames)].passes = Top.passes + 1],
                        Frame(ScanValue(Top.data, Top.i)))
    /\ UNCHANGED <<payload, returned, parsePc, crcVars, mainVars>>

\* an inner call returns: result[id] = its result; i += 4 + len
ParseReturn ==
    /\ parsePc = "scan"
    /\ LoopLeft
    /\ Len(frames) > 1
    /\ LET caller == frames[Len(frames) - 1]
       IN  frames' = Append(SubSeq(frames, 1, Len(frames) - 2),
              [data   |-> caller.data,
               i      |-> ScanAdvance(caller.data, caller.i),
               result |-> Put(caller.result, ScanId(caller.data, caller.i),
                              ObjVal(Top.result)),
               passes |-> caller.passes])
    /\ UNCHANGED <<payload, returned, parsePc, crcVars, mainVars>>

\* the outermost call returns, and extract deletes raw['63'], relabels and
\* returns
ExtractReturn ==
    /\ parsePc = "scan"
    /\ LoopLeft
    /\ Len(frames) = 1
    /\ returned' = Relabel(Top.result)
    /\ frames' = <<>>
    /\ parsePc' = "done"
    /\ UNCHANGED <<payload, crcVars, mainVars>>

ParseNext ==
    ExtractCall \/ ScanStore \/ ScanRecurse \/ ParseReturn \/ ExtractReturn

SpecParse == ParseInit /\ [][ParseNext]_vars

(***************************************************************************)
(* calculateCRC16 as a machine                                             *)
(***************************************************************************)
\* the character codes the inputs of SpecCRC are made of
CrcCodes == {0, 1, 48, 65, 128, 255}

\* "123456789", the customary check input of CRC catalogues
CheckInput == <<49, 50, 51, 52, 53, 54, 55, 56, 57>>

CrcInputs ==
    UNION {[1..n -> CrcCodes] : n \in 0..MaxCrcLen} \cup {CheckInput}

CrcInit ==
    /\ MainIdle
    /\ ParseIdle
    /\ crcData \in CrcInputs
    /\ crcI = 0
    /\ crcReg = CRC_INIT
    /\ crcHex = <<>>
    /\ crcPc = "loop"

\* for (i < data.length): one character
CrcStep ==
    /\ crcPc = "loop"
    /\ crcI < Len(crcData)
    /\ crcReg' = CrcChar(crcReg, crcData[crcI + 1])
    /\ crcI' = crcI + 1
    /\ UNCHANGED <<crcData, crcHex, crcPc, mainVars, parseVars>>

\* the loop is over: return the rendered register
CrcReturn ==
    /\ crcPc = "loop"
    /\ crcI >= Len(crcData)
    /\ crcHex' = CrcRender(crcReg)
    /\ crcPc' = "returned"
    /\ UNCHANGED <<crcData, crcI, crcReg, mainVars, parseVars>>

CrcNext == CrcStep \/ CrcReturn

SpecCRC == CrcInit /\ [][CrcNext]_vars

(***************************************************************************)
(* CRC-16/CCITT-FALSE by its definition: the message bits, most            *)
(* significant first, are fed one at a time into a 16-bit shift register   *)
(* preset to all ones; a bit leaving the register, XORed with the message  *)
(* bit, adds the polynomial x^16 + x^12 + x^5 + 1.  The register is a set  *)
(* of bit positions and XOR is symmetric difference.                       *)
(***************************************************************************)
RefPoly == {0, 5, 12}

RefBit(reg, bit) ==
    LET top     == IF 15 \in reg THEN 1 - bit ELSE bit
        shifted == {b + 1 : b \in reg \ {15}}
    IN  IF top = 1 THEN (shifted \ RefPoly) \cup (RefPoly \ shifted)
        ELSE shifted

RECURSIVE RefByte(_, _, _)
RefByte(reg, code, k) ==
    IF k < 0 \/ Cardinality(reg) > 16 THEN reg
    ELSE RefByte(RefBit(reg, (code \div Pow2(k)) % 2), code, k - 1)

RECURSIVE RefCrc(_, _)
RefCrc(data, n) ==
    IF n = 0 THEN 0..15
    ELSE RefByte(RefCrc(data, n - 1), data[n], 7)

RECURSIVE SetValue(_)
SetValue(bits) ==
    IF bits = {} THEN 0
    ELSE LET b == CHOOSE x \in bits : TRUE
         IN  Pow2(b) + SetValue(bits \ {b})

\* the number a string of uppercase hexadecimal digits denotes
HexDigits == (48..57) \cup (65..70)

RECURSIVE HexValue(_)
HexValue(s) ==
    IF s = <<>> THEN 0
    ELSE LET c == s[Len(s)]
         IN  16 * HexValue(SubSeq(s, 1, Len(s) - 1))
               + (IF c \in 48..57 THEN c - 48 ELSE c - 55)

\* C8: for every input of character codes 0..255, the empty one included,
\* the register stays within 0..0xFFFF after every character and equals the
\* CRC-16/CCITT-FALSE register of the characters consumed, and the value
\* returned is that CRC as exactly 4 uppercase hexadecimal characters,
\* zero-padded on the left.
C8_Crc16 ==
    /\ crcReg \in 0..65535
    /\ crcReg = SetValue(RefCrc(crcData, crcI))
    /\ crcPc = "returned" =>
          /\ crcI = Len(crcData)
          /\ Len(crcHex) = 4
          /\ \A k \in 1..Len(crcHex) : crcHex[k] \in HexDigits
          /\ HexValue(crcHex) = SetValue(RefCrc(crcData, Len(crcData)))

\* "123456789" has been given and "29B1" returned
C8_Witness ==
    /\ crcPc = "returned"
    /\ crcData = CheckInput
    /\ crcHex = <<50, 57, 66, 49>>


(***************************************************************************)
(* Properties of generate                                                  *)
(***************************************************************************)
\* "6304" occurs in s
HasMarker(s) ==
    \E k \in 1..(Len(s) - 3) :
        s[k] = 54 /\ s[k + 1] = 51 /\ s[k + 2] = 48 /\ s[k + 3] = 52

\* what precedes the first "6304" of s
BeforeMarker(s) ==
    LET first == CHOOSE k \in 1..(Len(s) - 3) :
                    /\ SubSeq(s, k, k + 3) = CRC_TAG
                    /\ \A j \in 1..(k - 1) : SubSeq(s, j, j + 3) # CRC_TAG
    IN  SubSeq(s, 1, first - 1)

\* C4: generate throws the error that names the missing CRC tag exactly when
\* the base payload does not contain "6304"; it raises nothing else, and a
\* call that throws returns no payload.
C4_InvalidFormat ==
    pc # "start" =>
        /\ gen.status = "threw" <=> ~HasMarker(dataQris)
        /\ gen.status = "threw" =>
              /\ gen.error = "Invalid QRIS base: CRC tag \"6304\" not found"
              /\ gen.qris = <<>>
              /\ qrString = <<>>
        /\ gen.status # "threw" => gen.error = ""

\* generate has thrown on a base that is not empty
C4_Witness ==
    /\ pc = "threw"
    /\ dataQris # <<>>
    /\ ~HasMarker(dataQris)

\* the ids of a sequence of entries ascend strictly
Ascending(entries) ==
    \A k \in 1..(Len(entries) - 1) : LexLess(entries[k].id, entries[k + 1].id)

\* the text generateTag wrote between the id and the value of an entry
WrittenLength(entry) ==
    LET text == generateTag(entry.id, entry.value)
    IN  SubSeq(text, Len(entry.id) + 1, Len(text) - Len(entry.value))

\* the entries generate emitted: those of tlv and those inside tag 62
TopEntries == Entries(gen.tlv)

SubEntries ==
    IF TAG_ADDITIONAL \in DOMAIN gen.tlv /\ gen.tlv[TAG_ADDITIONAL].obj
        THEN Entries(gen.tlv[TAG_ADDITIONAL].sub)
        ELSE <<>>

EntryText(entries) ==
    Join([k \in 1..Len(entries) |-> generateTag(entries[k].id, entries[k].value)])

C6_LengthField ==
    pc = "generated" =>
        \A entries \in {TopEntries, SubEntries} :
            \A k \in 1..Len(entries) :
                LET written == WrittenLength(entries[k])
                IN  /\ Len(written) = 2
                    /\ IsDigit(written[1]) /\ IsDigit(written[2])
                    /\ 10 * (written[1] - 48) + (written[2] - 48)
                           = Len(entries[k].value)

\* the tags generate sets
SetTags == {TAG_AMOUNT, TAG_ADDITIONAL}

\* the additional data generate builds of an invoice and a description
ExpectedAdditional(invoice, description) ==
    [k \in (IF invoice # <<>> THEN {SUB_INVOICE} ELSE {})
             \cup (IF description # <<>> THEN {SUB_DESCRIPTION} ELSE {}) |->
        StrVal(IF k = SUB_INVOICE THEN invoice ELSE description)]

\* C10: generate changes tags 54 and 62 only.  Every other tag parsed from
\* what precedes the first "6304" of the base is in the output with its
\* value, and no other tag is; tag 62 is the invoice (01) and the description
\* (07) alone when one of them is given, and as in the base when neither is;
\* what follows the first "6304" does not bear on the output.
C10_Frame ==
    pc = "generated" =>
        LET base == parseTLV(BeforeMarker(dataQris), {}).result
        IN  /\ (DOMAIN gen.tlv) \ SetTags = (DOMAIN base) \ SetTags
            /\ \A id \in (DOMAIN base) \ SetTags :
                  /\ gen.tlv[id] = base[id]
                  /\ Occurrences(gen.qris,
                                 generateTag(id, base[id].str)) # {}
            /\ TAG_AMOUNT \in DOMAIN gen.tlv
            /\ IF dataInvoice # <<>> \/ dataDescription # <<>>
                  THEN /\ TAG_ADDITIONAL \in DOMAIN gen.tlv
                       /\ gen.tlv[TAG_ADDITIONAL] =
                             ObjVal(ExpectedAdditional(dataInvoice,
                                                       dataDescription))
                  ELSE /\ TAG_ADDITIONAL \in DOMAIN gen.tlv
                             <=> TAG_ADDITIONAL \in DOMAIN base
                       /\ TAG_ADDITIONAL \in DOMAIN base =>
                             gen.tlv[TAG_ADDITIONAL] = base[TAG_ADDITIONAL]
            /\ gen.qris = EntryText(TopEntries) \o CRC_TAG
                              \o SubSeq(gen.qris, Len(gen.qris) - 3,
                                        Len(gen.qris))
            /\ gen.qris = generate(BeforeMarker(dataQris) \o CRC_TAG,
                                   dataAmount, dataInvoice,
                                   dataDescription).qris

\* generate has returned for the base "62070103OLD" "0002ZZ" "6304" "4E67"
\* and an invoice: additional data already there, another tag, and a
\* checksum after the marker
C10_Witness ==
    /\ pc = "generated"
    /\ dataQris = <<54, 50, 48, 55, 48, 49, 48, 51, 79, 76, 68, 48, 48, 48, 50, 90, 90, 54, 51, 48, 52, 52, 69, 54, 55>>
    /\ dataInvoice # <<>>

(***************************************************************************)
(* Properties of validate and extract                                      *)
(***************************************************************************)
\* C1 as claimed: validate returns true for what generate returned, whatever
\* the base, the amount, the invoice and the description.
C1_RoundTrip == (pc = "validated" /\ ~tampered) => valid

\* C3 as claimed: validate returns false for a generate output one of whose
\* final 4 characters has been replaced by another character.
C3_TamperDetected == (pc = "validated" /\ tampered) => ~valid

\* C5 as claimed: with an invoice and a description, extract of what generate
\* returned has the amount with two decimals under "Transaction Amount", the
\* invoice and the description under "Additional Data", every other tag
\* parsed from the base under its label with its value, and no CRC entry.
C5_ExtractRoundTrip ==
    (pc = "extracted" /\ dataInvoice # <<>> /\ dataDescription # <<>>) =>
        LET base   == parseTLV(BeforeMarker(dataQris), {}).result
            result == extracted.result
        IN  /\ extracted.status = "returned"
            /\ <<"Transaction Amount">> \in DOMAIN result
            /\ result[<<"Transaction Amount">>] = StrVal(ToFixed2(dataAmount))
            /\ <<"Additional Data">> \in DOMAIN result
            /\ result[<<"Additional Data">>].obj
            /\ LET data == result[<<"Additional Data">>].sub
               IN  /\ DOMAIN data = {<<"Invoice Number">>, <<"Description">>}
                   /\ data[<<"Invoice Number">>] = StrVal(dataInvoice)
                   /\ data[<<"Description">>] = StrVal(dataDescription)
            /\ \A id \in (DOMAIN base) \ (SetTags \cup {TAG_CRC}) :
                  /\ TagLabel(id) \in DOMAIN result
                  /\ result[TagLabel(id)] = base[id]
            /\ <<"CRC">> \notin DOMAIN result

(***************************************************************************)
(* Properties of parseTLV inside extract                                   *)
(***************************************************************************)
\* C2 as claimed: the loop of every call of parseTLV ends within as many
\* passes as its data has characters, so that extract returns.
C2_ExtractTotal ==
    \A k \in 1..Len(frames) : frames[k].passes <= Len(frames[k].data)

\* the loop is at a header whose length is no non-negative integer, or whose
\* length reaches past the end of the data
BadHeader ==
    /\ parsePc = "scan"
    /\ LoopCond(Top.data, Top.i)
    /\ \/ ScanLen(Top.data, Top.i).nan
       \/ ScanLen(Top.data, Top.i).n < 0
       \/ 4 + ScanLen(Top.data, Top.i).n > Len(Top.data) - Top.i

\* C9 as claimed: at a header whose length is no valid non-negative integer,
\* or with 4 + length beyond what remains, parseTLV stops scanning and
\* returns the entries it has; it stores no entry for that header.
C9_TolerantTruncation ==
    [][BadHeader =>
          /\ Len(frames') = Len(frames) - 1
          /\ IF Len(frames) = 1
                THEN returned' = Relabel(Top.result)
                ELSE frames'[Len(frames')].result
                        = Put(frames[Len(frames) - 1].result,
                              ScanId(frames[Len(frames) - 1].data,
                                     frames[Len(frames) - 1].i),
                              ObjVal(Top.result))]_vars

=============================================================================
